---- MODULE Spec2Model ----
(***************************************************************************)
(* A model of tf_yarn/mlflow.py: the cached feature gate (use_mlflow),     *)
(* the two decorators (safe_mlflow, optional_mlflow), the forwarding       *)
(* functions, active_run_id, get_tracking_uri, format_key and              *)
(* save_text_to_mlflow.                                                    *)
(*                                                                         *)
(* Python values are tagged tuples: None is <<"None">>, a bool b is        *)
(* <<"bool", b>>, a str s is <<"str", s>>, a run identifier handed out by  *)
(* the backend is <<"run_id", n>> and a raised exception of class k is     *)
(* <<"exc", k>>.  The backend (mlflow), the environment and the filesystem *)
(* are not part of the module: every backend call and every filesystem     *)
(* step takes its outcome ("ok" or the class of the exception it raises)   *)
(* as an input of the action.                                              *)
(***************************************************************************)
EXTENDS Integers, Sequences, FiniteSets

VARIABLES
    envUseMlflow,      \* os.environ["TF_YARN_USE_MLFLOW"], "" when unset
    libInstalled,      \* whether "import mlflow" succeeds in this process
                       \* (ModuleNotFoundError and ImportError both: no)
    uriSet,            \* mlflow.tracking.utils.is_tracking_uri_set()
    pyarrow,           \* what "import pyarrow" does: see PyarrowStates
    _use_mlflow,       \* the module global: None, True or False
    detectCount,       \* how many times _detect_mlflow has run
    activeRun,         \* the backend's active run (0: none)
    runs,              \* how many runs the backend has started so far
    backendCalls,      \* how many backend functions the module has invoked
    fs,                \* the filesystem: a set of <<path, data>> entries
    ncalls,            \* how many public functions have been called
    last,              \* what the last call of a public function did
    prev,              \* the backend failure the call before it caught, if any
    key,               \* format_key: the argument
    formatted,         \* format_key: the value returned
    pc,                \* threads: where each thread is in its call
    op,                \* threads: the public function each thread is in
    det,               \* threads: the local result of _detect_mlflow()
    ret,               \* threads: what the thread's last use_mlflow() returned
    left               \* threads: calls each thread may still make

envVars  == <<envUseMlflow, libInstalled, uriSet, pyarrow>>
seqVars  == <<detectCount, activeRun, runs, fs, ncalls, last, prev>>
fmtVars  == <<key, formatted>>
thrVars  == <<pc, op, det, ret, left>>
vars     == <<envVars, _use_mlflow, backendCalls, seqVars, fmtVars, thrVars>>

----------------------------------------------------------------------------
\* Bounds of the model.

\* Public functions called in one run of the sequential specification.
MaxCalls == 4
\* Longest key given to format_key.
MaxLen == 3
\* Calls each thread makes in the concurrent specification.
MaxThreadCalls == 2
\* Threads of the concurrent specification.
NThreads == 2

----------------------------------------------------------------------------
\* Python values.

PyNone == <<"None">>
PyBool(b) == <<"bool", b>>
PyStr(s) == <<"str", s>>
PyRunId(n) == <<"run_id", n>>
PyExc(k) == <<"exc", k>>

\* Classes of exception a backend call can raise.  "Exception" stands for
\* every class that is neither ConnectionError nor MlflowException.
ExcKinds == {"ConnectionError", "MlflowException", "Exception"}
Outcomes == {"ok"} \cup ExcKinds
\* Outcomes of a filesystem step (mkdtemp, open/write).
FsOutcomes == {"ok", "OSError"}

\* What "import pyarrow" does: it succeeds, it raises ModuleNotFoundError
\* (pyarrow is absent), or it raises another ImportError (pyarrow is
\* installed but cannot be loaded).
PyarrowStates == {"installed", "absent", "broken"}

\* Values of TF_YARN_USE_MLFLOW: unset, the literal that disables, another.
EnvValues == {"", "False", "True"}

Lg(level, msg) == <<level, msg>>
ExcLog == Lg("exception", "mlflow connection error")

----------------------------------------------------------------------------
\* The feature gate.

\* A variant that does not read TF_YARN_USE_MLFLOW.
_detect_mlflow_no_override ==
    IF ~libInstalled
      THEN [ret |-> FALSE,
            logs |-> <<Lg("exception", "mlflow is not installed")>>]
    ELSE IF ~uriSet
      THEN [ret |-> FALSE,
            logs |-> <<Lg("warning",
                   "mlflow tracking uri is not set. will not use mlflow")>>]
    ELSE [ret |-> TRUE, logs |-> <<>>]

\* _detect_mlflow(): the value returned and what it logs, read from the
\* environment as it is when the detection runs.
_detect_mlflow ==
    IF envUseMlflow = "False"
      THEN [ret |-> FALSE, logs |-> <<>>]
    ELSE IF ~libInstalled
      THEN [ret |-> FALSE,
            logs |-> <<Lg("exception", "mlflow is not installed")>>]
    ELSE IF ~uriSet
      THEN [ret |-> FALSE,
            logs |-> <<Lg("warning",
                   "mlflow tracking uri is not set. will not use mlflow")>>]
    ELSE [ret |-> TRUE, logs |-> <<>>]

\* A variant that runs the detection on every call.
use_mlflow_uncached ==
    LET d == _detect_mlflow
    IN  [flag |-> PyBool(d.ret), ret |-> d.ret,
         detects |-> 1, logs |-> d.logs]

\* use_mlflow(): the global after the call (flag), the value returned (ret,
\* read back from the global), whether the detection ran, and its logs.
use_mlflow ==
    IF _use_mlflow = PyNone
      THEN LET d == _detect_mlflow
           IN  [flag |-> PyBool(d.ret), ret |-> d.ret,
                detects |-> 1, logs |-> d.logs]
      ELSE [flag |-> _use_mlflow, ret |-> _use_mlflow[2],
            detects |-> 0, logs |-> <<>>]

----------------------------------------------------------------------------
\* What a call does: how it ends (out: "return" or "raise"), the value
\* returned or the exception raised (val), the class of the exception
\* raised inside it, caught or not (exc), the backend functions it invoked
\* in order (calls), what it logged (logs), the backend's runs and the
\* filesystem when it has ended, and what it did with its temporary
\* directory (tmp).

NoTmp == [created |-> FALSE, written |-> FALSE,
          uploaded |-> FALSE, uploadSaw |-> FALSE]

Return(v) ==
    [out |-> "return", val |-> v, exc |-> "none", calls |-> <<>>,
     logs |-> <<>>, activeRun |-> activeRun, runs |-> runs, fs |-> fs,
     tmp |-> NoTmp]

Raise(k) == [Return(PyExc(k)) EXCEPT !.out = "raise", !.exc = k]

\* _is_pyarrow_installed(): the import succeeds and True is returned, or it
\* raises ModuleNotFoundError, which becomes False; an ImportError of
\* another class (pyarrow installed but not loadable) is not caught.
_is_pyarrow_installed ==
    IF pyarrow = "installed" THEN Return(PyBool(TRUE))
    ELSE IF pyarrow = "absent" THEN Return(PyBool(FALSE))
    ELSE Raise("ImportError")

\* A variant that leaves MlflowException out of the except clause.
CaughtConnectionOnly(k) == k = "ConnectionError"

\* The classes named by "except (ConnectionError, exceptions.MlflowException)".
Caught(k) == k \in {"ConnectionError", "MlflowException"}

\* The except clause of both wrappers, applied to what the wrapped call did.
\* The tuple of classes is evaluated only when an exception reaches the
\* clause; the name "exceptions" is bound only if the import at the top of
\* the module succeeded.
ExceptClause(r) ==
    IF r.out # "raise" THEN r
    ELSE IF ~libInstalled THEN [r EXCEPT !.val = PyExc("NameError")]
    ELSE IF Caught(r.val[2])
      THEN [r EXCEPT !.out = "return", !.val = PyNone,
                     !.logs = Append(@, ExcLog)]
    ELSE r

\* safe_mlflow(f): f is always called; r is what the call of f did.
safe_mlflow(r) == ExceptClause(r)

\* A variant that calls f without asking the gate.
optional_mlflow_ungated(g, r) == ExceptClause(r)

\* optional_mlflow(f): f is called only if use_mlflow() returned true (g).
optional_mlflow(g, r) == IF g THEN ExceptClause(r) ELSE Return(PyNone)

\* One call of a backend function fn whose outcome is e.
BackendCall(fn, e) ==
    IF e = "ok" THEN [Return(PyNone) EXCEPT !.calls = <<fn>>]
    ELSE [Raise(e) EXCEPT !.calls = <<fn>>]

----------------------------------------------------------------------------
\* The public functions.  g is what use_mlflow() returned to the call.

ForwardingFunctions ==
    {"set_tag", "set_tags", "log_param", "log_params",
     "log_metric", "log_metrics", "log_artifact", "log_artifacts"}

\* set_tag .. log_artifacts: @optional_mlflow around one backend call.
forward(g, fn, e) == optional_mlflow(g, BackendCall(fn, e))

NoRunLog == Lg("warning", "there is no active mlflow run. starting a new run ..")

\* A variant that starts a run without asking for the active one.
active_run_id_always_starts(g, e1, e2) ==
    IF ~g THEN Return(PyStr(<<>>))
    ELSE IF e2 # "ok"
      THEN [Raise(e2) EXCEPT !.calls = <<"start_run">>]
    ELSE [Return(PyRunId(runs + 1)) EXCEPT
              !.calls = <<"start_run">>,
              !.activeRun = runs + 1,
              !.runs = runs + 1]

\* The body of active_run_id; e1 is the outcome of mlflow.active_run(),
\* e2 of mlflow.start_run().
active_run_id_body(g, e1, e2) ==
    IF ~g THEN Return(PyStr(<<>>))
    ELSE IF e1 # "ok" THEN [Raise(e1) EXCEPT !.calls = <<"active_run">>]
    ELSE IF activeRun # 0
      THEN [Return(PyRunId(activeRun)) EXCEPT !.calls = <<"active_run">>]
    ELSE IF e2 # "ok"
      THEN [Raise(e2) EXCEPT !.calls = <<"active_run", "start_run">>,
                             !.logs = <<NoRunLog>>]
    ELSE [Return(PyRunId(runs + 1)) EXCEPT
              !.calls = <<"active_run", "start_run">>,
              !.logs = <<NoRunLog>>,
              !.activeRun = runs + 1,
              !.runs = runs + 1]

active_run_id(g, e1, e2) == safe_mlflow(active_run_id_body(g, e1, e2))

\* What the backend's get_tracking_uri() returns: some non-empty str.
TrackingUri == <<"u", "r", "i">>

\* get_tracking_uri: not wrapped.
get_tracking_uri(g, e) ==
    IF ~g THEN Return(PyStr(<<>>))
    ELSE IF e # "ok" THEN [Raise(e) EXCEPT !.calls = <<"get_tracking_uri">>]
    ELSE [Return(PyStr(TrackingUri)) EXCEPT !.calls = <<"get_tracking_uri">>]

----------------------------------------------------------------------------
\* The filesystem, as save_text_to_mlflow uses it.  A path is a sequence of
\* components; an entry <<path, "<dir>">> is a directory, any other entry
\* a file and its content.

Dir == "<dir>"
TmpRoot == <<"tmp">>
\* The directory tempfile.TemporaryDirectory() creates.
TmpDir == <<"tmp", "tf_yarn_tmpdir">>

\* The arguments of save_text_to_mlflow: a plain file name, and one that
\* names a file in a subdirectory (which the call never creates).
Filenames == {<<"out.txt">>, <<"sub", "out.txt">>}
Contents == {"hello", ""}

IsDir(f, p) == <<p, Dir>> \in f
Parent(p) == SubSeq(p, 1, Len(p) - 1)
IsUnder(p, d) == Len(p) >= Len(d) /\ SubSeq(p, 1, Len(d)) = d
\* os.path.join(tempdir, filename), for a relative filename.
PathJoin(d, filename) == d \o filename
\* TemporaryDirectory.__exit__: the directory and all it holds are removed.
Cleanup(f, d) == {e \in f : ~IsUnder(e[1], d)}

\* A variant that removes the directory after the upload instead of on
\* leaving a with block: an exception skips the removal.
WithTempDirNoFinally(content, filename, mk, wr, up) ==
    LET info == <<Lg("info", "save file to mlflow")>>
    IN
    IF mk # "ok" THEN [Raise("OSError") EXCEPT !.logs = info]
    ELSE
      LET fs1 == fs \cup {<<TmpDir, Dir>>}
          path == PathJoin(TmpDir, filename)
          opened == wr = "ok" /\ IsDir(fs1, Parent(path))
          fs2 == IF opened THEN fs1 \cup {<<path, content>>} ELSE fs1
          saw == IsDir(fs2, TmpDir) /\ <<path, content>> \in fs2
          t == [created |-> TRUE, written |-> opened,
                uploaded |-> opened, uploadSaw |-> opened /\ saw]
      IN
      IF ~opened
        THEN [Raise("OSError") EXCEPT !.logs = info, !.fs = fs1, !.tmp = t]
      ELSE [BackendCall("log_artifact", up) EXCEPT
                !.logs = info,
                !.fs = IF up = "ok" THEN Cleanup(fs2, TmpDir) ELSE fs2,
                !.tmp = t]

\* save_text_to_mlflow's body from "with tempfile.TemporaryDirectory()" on.
\* mk: outcome of creating the directory; wr: outcome of open/write apart
\* from a missing parent directory; up: outcome of mlflow.log_artifact.
\* The with statement runs Cleanup on every way out of its block.
WithTempDir(content, filename, mk, wr, up) ==
    LET info == <<Lg("info", "save file to mlflow")>>
    IN
    IF mk # "ok" THEN [Raise("OSError") EXCEPT !.logs = info]
    ELSE
      LET fs1 == fs \cup {<<TmpDir, Dir>>}
          path == PathJoin(TmpDir, filename)
          opened == wr = "ok" /\ IsDir(fs1, Parent(path))
          fs2 == IF opened THEN fs1 \cup {<<path, content>>} ELSE fs1
          saw == IsDir(fs2, TmpDir) /\ <<path, content>> \in fs2
          fs3 == Cleanup(fs2, TmpDir)
          t == [created |-> TRUE, written |-> opened,
                uploaded |-> opened, uploadSaw |-> opened /\ saw]
      IN
      IF ~opened
        THEN [Raise("OSError") EXCEPT !.logs = info, !.fs = fs3, !.tmp = t]
      ELSE [BackendCall("log_artifact", up) EXCEPT
                !.logs = info, !.fs = fs3, !.tmp = t]

\* A variant that does not ask whether pyarrow is installed.
save_text_no_pyarrow_check(g, content, filename, mk, wr, up) ==
    IF ~g THEN Return(PyNone)
    ELSE WithTempDir(content, filename, mk, wr, up)

save_text_to_mlflow_body(g, content, filename, mk, wr, up) ==
    IF ~g THEN Return(PyNone)
    ELSE LET p == _is_pyarrow_installed
         IN  IF p.out = "raise" THEN p
             ELSE IF ~p.val[2]
               THEN [Return(PyNone) EXCEPT
                        !.logs = <<Lg("warning", "Pyarrow is not installed")>>]
             ELSE WithTempDir(content, filename, mk, wr, up)

save_text_to_mlflow(g, content, filename, mk, wr, up) ==
    safe_mlflow(save_text_to_mlflow_body(g, content, filename, mk, wr, up))

----------------------------------------------------------------------------
\* format_key.  A str is a sequence of characters; None is PyNone.

Chars == {":", "/", "_", "a"}
RECURSIVE StrsOfLen(_)
StrsOfLen(n) ==
    IF n = 0 THEN {<<>>}
    ELSE {Append(s, c) : s \in StrsOfLen(n - 1), c \in Chars}
Strs == UNION {StrsOfLen(n) : n \in 0..MaxLen}
Keys == {PyNone} \cup {PyStr(s) : s \in Strs}

\* str.replace(old, new) for a one-character old.
Replace(s, old, new) ==
    [i \in 1..Len(s) |-> IF s[i] = old THEN new ELSE s[i]]

\* "if key:": None and the empty str are falsy.
Truthy(k) == k # PyNone /\ k[2] # <<>>

\* A variant that forgets the second replace.
format_key_colon_only(k) ==
    IF Truthy(k) THEN PyStr(Replace(k[2], ":", "_"))
    ELSE PyStr(<<>>)

format_key(k) ==
    IF Truthy(k) THEN PyStr(Replace(Replace(k[2], ":", "_"), "/", "_"))
    ELSE PyStr(<<>>)

----------------------------------------------------------------------------
\* The sequential specification: one thread calls the public functions one
\* after the other, and the host process may change the environment
\* between two calls.

NoCall == [fn |-> "none", out |-> "return", val |-> PyNone, exc |-> "none",
           calls |-> <<>>, logs |-> <<>>, gate |-> FALSE, tmp |-> NoTmp]

WrappedFunctions ==
    ForwardingFunctions \cup {"active_run_id", "save_text_to_mlflow"}

\* The call c ended in a ConnectionError or MlflowException raised by the
\* backend with tracking enabled.
BackendFailed(c) ==
    /\ c.fn \in WrappedFunctions
    /\ c.gate
    /\ c.exc \in {"ConnectionError", "MlflowException"}

\* What is remembered of a call once the next one has been made: the class
\* of the backend exception its wrapper caught, or "none".
Summary(c) == IF BackendFailed(c) THEN c.exc ELSE "none"

Threads == 1..NThreads

IdleThreads ==
    /\ pc = [t \in Threads |-> "idle"]
    /\ op = [t \in Threads |-> "none"]
    /\ det = [t \in Threads |-> FALSE]
    /\ ret = [t \in Threads |-> PyNone]

InitEnv ==
    /\ envUseMlflow \in EnvValues
    /\ libInstalled \in BOOLEAN
    /\ uriSet \in BOOLEAN
    /\ pyarrow \in PyarrowStates
    /\ _use_mlflow = PyNone
    /\ detectCount = 0
    /\ backendCalls = 0
    /\ fs = {<<TmpRoot, Dir>>}
    /\ ncalls = 0
    /\ last = NoCall
    /\ prev = Summary(NoCall)
    /\ key = PyNone
    /\ formatted = PyNone

\* The host may have started a run before it first calls the module.
Init ==
    /\ InitEnv
    /\ \E r \in {0, 1} : /\ r = 1 => libInstalled
                         /\ activeRun = r
                         /\ runs = r
    /\ IdleThreads
    /\ left = [t \in Threads |-> 0]

\* The state after a call fn that saw the gate as g and did r.
Commit(fn, g, r) ==
    /\ ncalls < MaxCalls
    /\ ncalls' = ncalls + 1
    /\ _use_mlflow' = g.flag
    /\ detectCount' = detectCount + g.detects
    /\ backendCalls' = backendCalls + Len(r.calls)
    /\ activeRun' = r.activeRun
    /\ runs' = r.runs
    /\ fs' = r.fs
    /\ last' = [fn |-> fn, out |-> r.out, val |-> r.val, exc |-> r.exc,
                calls |-> r.calls, logs |-> g.logs \o r.logs,
                gate |-> g.ret, tmp |-> r.tmp]
    /\ prev' = Summary(last)
    /\ UNCHANGED <<envVars, fmtVars, thrVars>>

CallUseMlflow ==
    LET g == use_mlflow IN Commit("use_mlflow", g, Return(PyBool(g.ret)))

CallForward ==
    \E fn \in ForwardingFunctions, e \in Outcomes :
        LET g == use_mlflow IN Commit(fn, g, forward(g.ret, fn, e))

CallActiveRunId ==
    \E e1, e2 \in Outcomes :
        LET g == use_mlflow
        IN  Commit("active_run_id", g, active_run_id(g.ret, e1, e2))

CallGetTrackingUri ==
    \E e \in Outcomes :
        LET g == use_mlflow
        IN  Commit("get_tracking_uri", g, get_tracking_uri(g.ret, e))

CallSaveText ==
    \E content \in Contents, filename \in Filenames,
       mk, wr \in FsOutcomes, up \in Outcomes :
        LET g == use_mlflow
        IN  Commit("save_text_to_mlflow", g,
                   save_text_to_mlflow(g.ret, content, filename, mk, wr, up))

\* The host sets or unsets TF_YARN_USE_MLFLOW.
SetEnv ==
    /\ \E v \in EnvValues \ {envUseMlflow} : envUseMlflow' = v
    /\ UNCHANGED <<libInstalled, uriSet, pyarrow, _use_mlflow,
                   backendCalls, seqVars, fmtVars, thrVars>>

\* The host sets or unsets the backend's tracking URI.
SetTrackingUri ==
    /\ uriSet' = ~uriSet
    /\ UNCHANGED <<envUseMlflow, libInstalled, pyarrow, _use_mlflow,
                   backendCalls, seqVars, fmtVars, thrVars>>

Next ==
    \/ CallUseMlflow
    \/ CallForward
    \/ CallActiveRunId
    \/ CallGetTrackingUri
    \/ CallSaveText
    \/ SetEnv
    \/ SetTrackingUri

Spec == Init /\ [][Next]_vars

----------------------------------------------------------------------------
\* The specification of format_key: a key is drawn, then formatted.

InitFmt ==
    /\ envUseMlflow = "" /\ libInstalled = TRUE /\ uriSet = TRUE
    /\ pyarrow = "installed"
    /\ _use_mlflow = PyNone /\ detectCount = 0 /\ backendCalls = 0
    /\ activeRun = 0 /\ runs = 0
    /\ fs = {<<TmpRoot, Dir>>} /\ ncalls = 0 /\ last = NoCall
    /\ prev = Summary(NoCall)
    /\ IdleThreads /\ left = [t \in Threads |-> 0]
    /\ key \in Keys
    /\ formatted = PyNone

CallFormatKey ==
    /\ formatted = PyNone
    /\ formatted' = format_key(key)
    /\ UNCHANGED <<key, envVars, _use_mlflow, backendCalls, seqVars, thrVars>>

\* The caller passes another key.
NextKey ==
    /\ formatted # PyNone
    /\ \E k \in Keys \ {key} : key' = k
    /\ formatted' = PyNone
    /\ UNCHANGED <<envVars, _use_mlflow, backendCalls, seqVars, thrVars>>

NextFmt == CallFormatKey \/ NextKey

SpecFmt == InitFmt /\ [][NextFmt]_vars

----------------------------------------------------------------------------
\* The concurrent specification: NThreads threads call use_mlflow() and a
\* forwarding function, interleaved at the reads and writes of the global
\* _use_mlflow, which no lock protects.  The environment and the backend
\* configuration are fixed.
\*
\*   check   "if _use_mlflow is None:"               (reads the global)
\*   detect  "_detect_mlflow()"                      (into a local)
\*   store   "_use_mlflow = ..."                     (writes the global)
\*   return  "return _use_mlflow"                    (reads the global)
\*   gate    "if use_mlflow(): ... f(*args, **kwds)" (optional_mlflow)

ThreadFunctions == {"use_mlflow", "log_metric"}

InitConc ==
    /\ InitEnv
    /\ activeRun = 0 /\ runs = 0
    /\ IdleThreads
    /\ left = [t \in Threads |-> MaxThreadCalls]

Begin(t) ==
    /\ pc[t] = "idle"
    /\ left[t] > 0
    /\ \E f \in ThreadFunctions : op' = [op EXCEPT ![t] = f]
    /\ left' = [left EXCEPT ![t] = @ - 1]
    /\ pc' = [pc EXCEPT ![t] = "check"]
    /\ UNCHANGED <<envVars, _use_mlflow, backendCalls, seqVars, fmtVars,
                   det, ret>>

\* A variant that marks the gate "disabled" while the detection runs.
CheckMarking(t) ==
    /\ pc[t] = "check"
    /\ pc' = [pc EXCEPT ![t] = IF _use_mlflow = PyNone THEN "detect"
                                ELSE "return"]
    /\ _use_mlflow' = IF _use_mlflow = PyNone THEN PyBool(FALSE)
                      ELSE _use_mlflow
    /\ UNCHANGED <<envVars, backendCalls, seqVars, fmtVars,
                   op, det, ret, left>>

Check(t) ==
    /\ pc[t] = "check"
    /\ pc' = [pc EXCEPT ![t] = IF _use_mlflow = PyNone THEN "detect"
                                ELSE "return"]
    /\ UNCHANGED <<envVars, _use_mlflow, backendCalls, seqVars, fmtVars,
                   op, det, ret, left>>

Detect(t) ==
    /\ pc[t] = "detect"
    /\ det' = [det EXCEPT ![t] = _detect_mlflow.ret]
    /\ detectCount' = detectCount + 1
    /\ pc' = [pc EXCEPT ![t] = "store"]
    /\ UNCHANGED <<envVars, _use_mlflow, backendCalls, activeRun, runs, fs,
                   ncalls, last, prev, fmtVars, op, ret, left>>

Store(t) ==
    /\ pc[t] = "store"
    /\ _use_mlflow' = PyBool(det[t])
    /\ pc' = [pc EXCEPT ![t] = "return"]
    /\ UNCHANGED <<envVars, backendCalls, seqVars, fmtVars, op, det, ret, left>>

ReturnFlag(t) ==
    /\ pc[t] = "return"
    /\ ret' = [ret EXCEPT ![t] = _use_mlflow]
    /\ pc' = [pc EXCEPT ![t] = IF op[t] = "use_mlflow" THEN "idle"
                                ELSE "gate"]
    /\ UNCHANGED <<envVars, _use_mlflow, backendCalls, seqVars, fmtVars,
                   op, det, left>>

\* optional_mlflow's wrapper, once use_mlflow() has returned ret[t].
Gate(t) ==
    /\ pc[t] = "gate"
    /\ backendCalls' = IF ret[t] = PyBool(TRUE) THEN backendCalls + 1
                       ELSE backendCalls
    /\ pc' = [pc EXCEPT ![t] = "idle"]
    /\ UNCHANGED <<envVars, _use_mlflow, seqVars, fmtVars, op, det, ret, left>>

NextConc ==
    \E t \in Threads :
        \/ Begin(t)
        \/ Check(t)
        \/ Detect(t)
        \/ Store(t)
        \/ ReturnFlag(t)
        \/ Gate(t)

SpecConc == InitConc /\ [][NextConc]_vars

----------------------------------------------------------------------------
\* The claims.  A step of the sequential specification is a call of a public
\* function exactly when it increases ncalls; last' then describes the call
\* and the unprimed variables the state it was made in.

IsCall(fn) == ncalls' = ncalls + 1 /\ last'.fn = fn

Count(seq, x) == Cardinality({i \in 1..Len(seq) : seq[i] = x})

\* C1: no error propagates to the caller: every call of a public function
\* ends by returning, whatever the gate and whatever failure the backend or
\* the filesystem produced during it.
C1_NoErrorPropagates == last.out = "return"

\* C2: while tracking is disabled no backend function has been invoked at
\* all, and a forwarding function called with the gate disabled returns
\* None without invoking the backend.
C2_DisabledNoBackendCall ==
    /\ _use_mlflow = PyBool(FALSE) => backendCalls = 0
    /\ (last.fn \in ForwardingFunctions /\ ~last.gate) =>
           /\ last.out = "return"
           /\ last.val = PyNone
           /\ last.calls = <<>>

\* A forwarding function was called with tracking disabled, after an
\* earlier call.
C2_Witness ==
    /\ last.fn \in ForwardingFunctions
    /\ ~last.gate
    /\ _use_mlflow = PyBool(FALSE)
    /\ ncalls >= 2

\* What C3 says of the failing call itself: it returns None, logs the error
\* once, and has invoked the failing backend function once, as the last
\* backend function of the call.
FailureLoggedOnce ==
    BackendFailed(last) =>
        /\ last.out = "return"
        /\ last.val = PyNone
        /\ Count(last.logs, ExcLog) = 1
        /\ last.calls # <<>>
        /\ Count(last.calls, last.calls[Len(last.calls)]) = 1

\* C3 as stated: a wrapped function whose backend call raises
\* ConnectionError or MlflowException with tracking enabled returns None,
\* logs the error once and does not retry; and the next call of any wrapped
\* function that returns invokes the backend again.
C3_Original ==
    /\ []FailureLoggedOnce
    /\ [][(/\ BackendFailed(last)
           /\ ncalls' = ncalls + 1
           /\ last'.fn \in WrappedFunctions
           /\ last'.out = "return")
          => last'.calls # <<>>]_vars

\* C3, amended: the failing call returns None, logs the error once and does
\* not retry, and it leaves the gate, the backend's session and the
\* filesystem as a call that made no backend call would.  The next call of
\* a forwarding function invokes its backend function and the next call of
\* active_run_id invokes active_run; the next call of save_text_to_mlflow
\* invokes log_artifact exactly when it has written its file (pyarrow is
\* importable, the directory was created and the file opened), and no
\* backend function otherwise.
C3_FailureLoggedOnceNoRetry ==
    /\ []FailureLoggedOnce
    /\ [][(ncalls' = ncalls + 1 /\ BackendFailed(last'))
          => (/\ _use_mlflow' = PyBool(TRUE)
              /\ activeRun' = activeRun
              /\ runs' = runs
              /\ fs' = fs)]_vars
    /\ [][(BackendFailed(last) /\ ncalls' = ncalls + 1)
          => (/\ last'.gate
              /\ last'.fn \in ForwardingFunctions
                    => last'.calls = <<last'.fn>>
              /\ last'.fn = "active_run_id"
                    => last'.calls # <<>> /\ last'.calls[1] = "active_run"
              /\ last'.fn = "save_text_to_mlflow"
                    => /\ last'.tmp.written
                            => (pyarrow = "installed"
                                /\ last'.calls = <<"log_artifact">>)
                       /\ ~last'.tmp.written => last'.calls = <<>>)]_vars

\* save_text_to_mlflow has uploaded its file, and the upload raised
\* MlflowException, right after a wrapped function whose backend call
\* raised ConnectionError.
C3_Witness ==
    /\ prev = "ConnectionError"
    /\ last.fn = "save_text_to_mlflow"
    /\ last.calls = <<"log_artifact">>
    /\ last.exc = "MlflowException"
    /\ last.out = "return"

\* C4 as stated: whenever use_mlflow() is called while TF_YARN_USE_MLFLOW is
\* "False", it returns false.
C4_Original ==
    [][(IsCall("use_mlflow") /\ envUseMlflow = "False")
       => last'.val = PyBool(FALSE)]_vars

\* C4, amended: whenever use_mlflow() is called while TF_YARN_USE_MLFLOW is
\* "False" and no earlier detection has cached "enabled", it returns false
\* and leaves the gate disabled, whatever the backend configuration.
C4_OverrideDisables ==
    [][(/\ IsCall("use_mlflow")
        /\ envUseMlflow = "False"
        /\ _use_mlflow # PyBool(TRUE))
       => (/\ last'.val = PyBool(FALSE)
           /\ last'.out = "return"
           /\ _use_mlflow' = PyBool(FALSE))]_vars

\* use_mlflow() has returned false, after other calls, with the override
\* "False" and a backend that is installed and configured.
C4_Witness ==
    /\ last.fn = "use_mlflow"
    /\ last.val = PyBool(FALSE)
    /\ envUseMlflow = "False"
    /\ libInstalled
    /\ uriSet
    /\ ncalls >= 2

\* No step closes or replaces an active session.
NeverCloses == activeRun # 0 => activeRun' = activeRun

\* C5 as stated: with tracking enabled active_run_id() returns the active
\* session's identifier, having started exactly one session if none was
\* active and none otherwise; with tracking disabled it returns "" and
\* starts none; and no step closes a session.
C5_Original ==
    [][/\ NeverCloses
       /\ IsCall("active_run_id") =>
            /\ last'.out = "return"
            /\ IF ~last'.gate
                 THEN /\ last'.val = PyStr(<<>>)
                      /\ runs' = runs /\ activeRun' = activeRun
               ELSE IF activeRun = 0
                 THEN /\ runs' = runs + 1 /\ activeRun' = runs'
                      /\ last'.val = PyRunId(activeRun')
               ELSE /\ runs' = runs /\ activeRun' = activeRun
                    /\ last'.val = PyRunId(activeRun)]_vars

\* C5, amended: the same when the backend calls made by active_run_id()
\* (active_run, start_run) do not raise; when one of them raises, no session
\* is started and no identifier is returned: None is returned for a
\* ConnectionError or MlflowException and the exception is raised otherwise.
\* No step closes a session.
C5_ActiveRunId ==
    [][/\ NeverCloses
       /\ IsCall("active_run_id") =>
            IF ~last'.gate
              THEN /\ last'.out = "return" /\ last'.val = PyStr(<<>>)
                   /\ runs' = runs /\ activeRun' = activeRun
                   /\ last'.calls = <<>>
            ELSE IF last'.exc # "none"
              THEN /\ runs' = runs /\ activeRun' = activeRun
                   /\ IF last'.exc \in {"ConnectionError", "MlflowException"}
                        THEN last'.out = "return" /\ last'.val = PyNone
                        ELSE last'.out = "raise"
            ELSE IF activeRun = 0
              THEN /\ runs' = runs + 1 /\ activeRun' = runs'
                   /\ last'.out = "return"
                   /\ last'.val = PyRunId(activeRun')
                   /\ Count(last'.calls, "start_run") = 1
            ELSE /\ runs' = runs /\ activeRun' = activeRun
                 /\ last'.out = "return"
                 /\ last'.val = PyRunId(activeRun)
                 /\ Count(last'.calls, "start_run") = 0]_vars

\* active_run_id() has returned the identifier of the session that an
\* earlier call of it started.
C5_Witness ==
    /\ last.fn = "active_run_id"
    /\ last.gate
    /\ last.calls = <<"active_run">>
    /\ last.val = PyRunId(activeRun)
    /\ runs = 1
    /\ backendCalls >= 3

\* C6: when a call of save_text_to_mlflow that created its temporary
\* directory has ended, however it ended, neither the directory nor
\* anything under it exists; and the upload, when made, saw the directory
\* and the written file.
C6_TempDirRemoved ==
    (last.fn = "save_text_to_mlflow" /\ last.tmp.created) =>
        /\ \A e \in fs : ~IsUnder(e[1], TmpDir)
        /\ last.tmp.uploaded => last.tmp.uploadSaw

\* A call created the directory and wrote the file, and the upload raised.
C6_Witness ==
    /\ last.fn = "save_text_to_mlflow"
    /\ last.tmp.created
    /\ last.tmp.uploaded
    /\ last.exc = "MlflowException"

\* C7: save_text_to_mlflow called with pyarrow absent (its import raises
\* ModuleNotFoundError), or with tracking disabled, returns None, creates
\* no temporary directory, writes nothing and invokes no backend function.
C7_NoPyarrowNoEffect ==
    (last.fn = "save_text_to_mlflow" /\ (pyarrow = "absent" \/ ~last.gate)) =>
        /\ last.out = "return"
        /\ last.val = PyNone
        /\ last.tmp = NoTmp
        /\ last.calls = <<>>
        /\ fs = {<<TmpRoot, Dir>>}

\* save_text_to_mlflow was called with tracking enabled and pyarrow absent.
C7_Witness ==
    /\ last.fn = "save_text_to_mlflow"
    /\ last.gate
    /\ pyarrow = "absent"

\* C8: format_key(None) and format_key("") are ""; for any other key the
\* result has the key's length, "_" wherever the key has ":" or "/", and
\* the key's character everywhere else.
C8_FormatKey ==
    formatted # PyNone =>
        IF key = PyNone \/ key = PyStr(<<>>)
          THEN formatted = PyStr(<<>>)
          ELSE /\ formatted[1] = "str"
               /\ Len(formatted[2]) = Len(key[2])
               /\ \A i \in 1..Len(key[2]) :
                     formatted[2][i] = IF key[2][i] \in {":", "/"} THEN "_"
                                       ELSE key[2][i]

\* A key holding ":", "/" and another character has been formatted.
C8_Witness ==
    /\ key = PyStr(<<":", "a", "/">>)
    /\ formatted = PyStr(<<"_", "a", "_">>)

\* What the detection returns for the environment as it is now.
Enabled == envUseMlflow # "False" /\ libInstalled /\ uriSet

\* C9: in the sequential specification the detection has run at most once,
\* and exactly once as soon as a call has consulted the gate; the first
\* such call sets the flag to the detection's result for the environment of
\* that moment; the flag, once set, never changes, whatever the host does to
\* the environment; and use_mlflow() returns the flag.
C9_DetectOnce ==
    /\ [](/\ detectCount <= 1
          /\ detectCount = 1 <=> _use_mlflow # PyNone
          /\ ncalls > 0 => detectCount = 1
          /\ last.fn = "use_mlflow" =>
                 last.out = "return" /\ last.val = _use_mlflow)
    /\ [][/\ _use_mlflow # PyNone => _use_mlflow' = _use_mlflow
          /\ (_use_mlflow = PyNone /\ ncalls' = ncalls + 1) =>
                 _use_mlflow' = PyBool(Enabled)]_vars

\* use_mlflow() has returned the cached "enabled" after the host set the
\* override that a fresh detection would obey.
C9_Witness ==
    /\ last.fn = "use_mlflow"
    /\ last.val = PyBool(TRUE)
    /\ envUseMlflow = "False"
    /\ ~uriSet
    /\ detectCount = 1
    /\ ncalls >= 2

\* C10: under concurrent first access with the environment fixed, every
\* use_mlflow() call returns the detection's result, the flag is unknown or
\* that result, and no backend function is invoked while that result is
\* "disabled", although the detection may run once per thread.
C10_BenignRace ==
    /\ \A t \in Threads : ret[t] # PyNone => ret[t] = PyBool(Enabled)
    /\ _use_mlflow \in {PyNone, PyBool(Enabled)}
    /\ ~Enabled => backendCalls = 0
    /\ detectCount <= NThreads

\* The detection has run more than once and every thread's use_mlflow()
\* has returned.
C10_Witness ==
    /\ detectCount >= 2
    /\ \A t \in Threads : ret[t] # PyNone /\ pc[t] = "idle"

====
